---- MODULE Spec2Model ----
(***************************************************************************)
(* Model of src/logging_middleware.go: the two constructors of             *)
(* LoggingMiddleware and the handler returned by LoggingMiddleware.Apply,  *)
(* run by one request (Spec) or by concurrent requests (SpecConc) against   *)
(* the one middleware the constructor returned.                            *)
(*                                                                         *)
(* Go strings are sequences of one-character strings, so that len(v) == 0, *)
(* URL.String() and regexp matching are computed and not assumed.          *)
(***************************************************************************)
EXTENDS Integers, Sequences, FiniteSets, TLC

VARIABLES
    ctor,        \* which constructor the program calls
    filtersArg,  \* the `filters map[string]logrus.Level` argument
    visited,     \* keys of filtersArg the range loop has already yielded
    refilters,   \* the local slice `refilters` of the constructor
    ctorPc,      \* "running" | "returned"
    ctorErr,     \* the constructor's error result: Nil, or <<the bad pattern>>
    mw,          \* the *LoggingMiddleware returned: Nil or [logger, filters]
    pc,          \* per invocation of the returned handler: its position
    req,         \* per invocation: the *http.Request
    logger,      \* per invocation: the local `logger` (its attached fields)
    loglevel,    \* per invocation: the local `loglevel`
    rw,          \* per invocation: the negroni ResponseWriter [status, size]
    err,         \* per invocation: the local `err` (what next returned)
    ret,         \* per invocation: what the returned handler returned
    calls,       \* per invocation: how many times next was invoked
    log,         \* the logger's output: the entries emitted, in order
    exited       \* TRUE once Fatalf has ended the process (os.Exit)

ctorVars == <<ctor, filtersArg, visited, refilters, ctorPc, ctorErr>>
callVars == <<pc, req, logger, loglevel, rw, err, ret, calls>>
vars == <<ctor, filtersArg, visited, refilters, ctorPc, ctorErr, mw,
          pc, req, logger, loglevel, rw, err, ret, calls, log, exited>>

----------------------------------------------------------------------------
(* Bounds of the model *)

\* the filters map holds at most this many entries
MaxRules == 2

\* the wrapped handler writes at most this many body bytes
MaxBytes == 1

\* the concurrent invocations of the returned handler
Reqs == {1, 2}

\* a nil pointer; a non-nil pointer to x is <<x>>
Nil == <<>>
\* a nil error
NoError == "nil"
\* a local not assigned yet
Unset == "unset"

----------------------------------------------------------------------------
(* Strings *)

IsPrefix(p, s) ==
    /\ Len(p) <= Len(s)
    /\ \A i \in 1..Len(p) : p[i] = s[i]

Contains(s, p) ==
    \E k \in 0..(Len(s) - Len(p)) : \A i \in 1..Len(p) : s[k + i] = p[i]

----------------------------------------------------------------------------
(* logrus levels and loggerFuncMap *)

\* logrus.Level values; TraceLevel is a Level with no entry in loggerFuncMap
Levels == {"Panic", "Fatal", "Error", "Warn", "Info", "Debug", "Trace"}

loggerFuncMapFatalAsError ==
    [l \in {"Debug", "Info", "Warn", "Error", "Fatal", "Panic"} |->
        CASE l = "Debug" -> "Debugf"
          [] l = "Info"  -> "Infof"
          [] l = "Warn"  -> "Warnf"
          [] l = "Error" -> "Errorf"
          [] l = "Fatal" -> "Errorf"
          [] l = "Panic" -> "Panicf"]

loggerFuncMap ==
    [l \in {"Debug", "Info", "Warn", "Error", "Fatal", "Panic"} |->
        CASE l = "Debug" -> "Debugf"
          [] l = "Info"  -> "Infof"
          [] l = "Warn"  -> "Warnf"
          [] l = "Error" -> "Errorf"
          [] l = "Fatal" -> "Fatalf"
          [] l = "Panic" -> "Panicf"]

\* the level a logrus.FieldLogger method emits its entry at
MethodLevel(f) ==
    CASE f = "Debugf" -> "Debug"
      [] f = "Infof"  -> "Info"
      [] f = "Warnf"  -> "Warn"
      [] f = "Errorf" -> "Error"
      [] f = "Fatalf" -> "Fatal"
      [] f = "Panicf" -> "Panic"

\* what a logrus.FieldLogger method does after emitting its entry
MethodEnd(f) ==
    CASE f = "Fatalf" -> "exit"
      [] f = "Panicf" -> "panic"
      [] OTHER        -> "return"

----------------------------------------------------------------------------
(* regexp: the patterns in use are a literal, optionally anchored by a     *)
(* leading ^; an unclosed ( is the syntax error regexp.Compile reports.    *)

RECURSIVE ParenDepth(_, _)
\* depth of open groups after reading p, or -1 once a ) closes nothing
ParenDepth(p, d) ==
    IF d < 0 \/ p = <<>> THEN d
    ELSE ParenDepth(Tail(p), CASE Head(p) = "(" -> d + 1
                               [] Head(p) = ")" -> d - 1
                               [] OTHER         -> d)

\* err == nil of regexp.Compile(pattern)
CompileOk(pattern) == ParenDepth(pattern, 0) = 0

\* re.MatchString(s) for a compiled pattern
MatchString(re, s) ==
    IF re # <<>> /\ Head(re) = "^" THEN IsPrefix(Tail(re), s)
    ELSE Contains(s, re)

PatA     == <<"^", "/", "a">>
PatAb    == <<"^", "/", "a", "b">>
PatAdmin == <<"^", "/", "a", "d", "m", "i", "n">>
PatB     == <<"b">>
PatBad   == <<"(", "a">>

Patterns == {PatA, PatAb, PatAdmin, PatB, PatBad}

\* every map of at most MaxRules entries from Patterns to Levels
FilterMaps ==
    UNION {[D -> Levels] : D \in {S \in SUBSET Patterns : Cardinality(S) <= MaxRules}}

\* the maps given when several requests run at once
ScenarioMaps ==
    { [p \in {PatAdmin} |-> "Warn"],
      [p \in {PatA, PatAb} |-> IF p = PatA THEN "Debug" ELSE "Error"],
      [p \in {PatAdmin, PatAb} |-> IF p = PatAdmin THEN "Fatal" ELSE "Panic"],
      [p \in {PatB, PatBad} |-> "Trace"] }

----------------------------------------------------------------------------
(* Requests *)

PathAdmin  == <<"/", "a", "d", "m", "i", "n", "/", "u", "s", "e", "r", "s">>
PathAbc    == <<"/", "a", "b", "c">>
PathPublic == <<"/", "p", "u", "b", "l", "i", "c">>

\* RequestID is <<>> when the context holds no string under "request_id"
Requests ==
    { [Method |-> <<"G", "E", "T">>, Path |-> PathAdmin, RawQuery |-> <<>>,
       Host |-> <<"h">>, RemoteAddr |-> <<"i", "p">>, Proto |-> <<"H", "1">>,
       Referer |-> <<"r">>, UserAgent |-> <<"u", "a">>, RequestID |-> << <<"7">> >>],
      [Method |-> <<"G", "E", "T">>, Path |-> PathAbc, RawQuery |-> <<"x">>,
       Host |-> <<"h">>, RemoteAddr |-> <<"i", "p">>, Proto |-> <<"H", "1">>,
       Referer |-> <<>>, UserAgent |-> <<"u", "a">>, RequestID |-> <<>>],
      [Method |-> <<"P", "U", "T">>, Path |-> PathPublic, RawQuery |-> <<>>,
       Host |-> <<>>, RemoteAddr |-> <<"i", "p">>, Proto |-> <<"H", "1">>,
       Referer |-> <<>>, UserAgent |-> <<>>, RequestID |-> <<>>] }

\* r.URL.String(): the path, then ?query when there is a query
URLString(q) ==
    IF q.RawQuery = <<>> THEN q.Path ELSE q.Path \o <<"?">> \o q.RawQuery

\* the errors the wrapped handler may return
Errors == {NoError, "E1", "E2"}

\* the codes the wrapped handler may pass to WriteHeader
StatusCodes == {200, 404}

----------------------------------------------------------------------------
(* logrus.Fields and derived loggers *)

NoFields == [k \in {} |-> <<>>]

\* the fields the base logger already carries
BaseLogger == [k \in {"app"} |-> <<"w", "e", "b">>]

\* logger.WithFields(fields): a new logger, the new fields over the old
WithFields(lg, fields) ==
    [k \in DOMAIN lg \cup DOMAIN fields |->
        IF k \in DOMAIN fields THEN fields[k] ELSE lg[k]]

\* logger.WithField("request_id", id) when the context holds an id
WithRequestID(lg, q) ==
    IF q.RequestID # <<>>
    THEN WithFields(lg, [k \in {"request_id"} |-> q.RequestID[1]])
    ELSE lg

RequestFields(q) ==
    [k \in {"method", "path", "host", "from", "protocol", "referer", "user_agent"} |->
        CASE k = "method"     -> q.Method
          [] k = "path"       -> URLString(q)
          [] k = "host"       -> q.Host
          [] k = "from"       -> q.RemoteAddr
          [] k = "protocol"   -> q.Proto
          [] k = "referer"    -> q.Referer
          [] k = "user_agent" -> q.UserAgent]

BuildFieldsKeepEmpty(q) == RequestFields(q)

\* the map `fields` after the loop that deletes the empty values
BuildFields(q) ==
    [k \in {k \in DOMAIN RequestFields(q) : Len(RequestFields(q)[k]) # 0} |->
        RequestFields(q)[k]]

----------------------------------------------------------------------------
(* Level selection *)

RECURSIVE ScanFirst(_, _, _)
ScanFirst(filters, path, level) ==
    IF filters = <<>> THEN level
    ELSE IF MatchString(Head(filters).re, path) THEN Head(filters).level
    ELSE ScanFirst(Tail(filters), path, level)

SelectLevelFirstMatch(filters, path) == ScanFirst(filters, path, "Info")

RECURSIVE Scan(_, _, _)
\* the loop over l.filters, from the candidate `level`
Scan(filters, path, level) ==
    IF filters = <<>> THEN level
    ELSE Scan(Tail(filters), path,
              IF MatchString(Head(filters).re, path)
              THEN Head(filters).level ELSE level)

\* loglevel after the loop, from logrus.InfoLevel
SelectLevel(filters, path) == Scan(filters, path, "Info")

\* the status logged: 200 when the recorder saw none
EffectiveStatusRaw(status) == status

EffectiveStatus(status) == IF status = 0 THEN 200 ELSE status

----------------------------------------------------------------------------
(* Initial state: a constructor is about to run, no request has arrived *)

InitWith(maps) ==
    /\ \/ ctor = "NewLoggingMiddleware" /\ filtersArg = NoFields
       \/ ctor = "NewLoggingMiddlewareWithFilters" /\ filtersArg \in maps
    /\ visited = {}
    /\ refilters = <<>>
    /\ ctorPc = "running"
    /\ ctorErr = Nil
    /\ mw = Nil
    /\ pc = [r \in Reqs |-> "idle"]
    /\ req = [r \in Reqs |-> <<>>]
    /\ logger = [r \in Reqs |-> NoFields]
    /\ loglevel = [r \in Reqs |-> Unset]
    /\ rw = [r \in Reqs |-> [status |-> 0, size |-> 0]]
    /\ err = [r \in Reqs |-> Unset]
    /\ ret = [r \in Reqs |-> Unset]
    /\ calls = [r \in Reqs |-> 0]
    /\ log = <<>>
    /\ exited = FALSE

----------------------------------------------------------------------------
(* The constructors *)

NewLoggingMiddleware ==
    /\ ctor = "NewLoggingMiddleware"
    /\ ctorPc = "running"
    /\ mw' = <<[logger |-> BaseLogger, filters |-> <<>>]>>
    /\ ctorPc' = "returned"
    /\ UNCHANGED <<ctor, filtersArg, visited, refilters, ctorErr, callVars, log, exited>>

\* a range loop that drops the entry whose pattern does not compile
FiltersRangeSkipInvalid ==
    /\ ctor = "NewLoggingMiddlewareWithFilters"
    /\ ctorPc = "running"
    /\ \E pattern \in (DOMAIN filtersArg) \ visited :
        /\ visited' = visited \cup {pattern}
        /\ refilters' = IF CompileOk(pattern)
                        THEN Append(refilters, [re |-> pattern, level |-> filtersArg[pattern]])
                        ELSE refilters
        /\ UNCHANGED <<ctorPc, ctorErr, mw>>
    /\ UNCHANGED <<ctor, filtersArg, callVars, log, exited>>

\* one iteration of `for pattern, level := range filters`: the map yields any
\* key it has not yielded yet
FiltersRange ==
    /\ ctor = "NewLoggingMiddlewareWithFilters"
    /\ ctorPc = "running"
    /\ \E pattern \in (DOMAIN filtersArg) \ visited :
        /\ visited' = visited \cup {pattern}
        /\ IF CompileOk(pattern)
           THEN /\ refilters' = Append(refilters, [re |-> pattern, level |-> filtersArg[pattern]])
                /\ UNCHANGED <<ctorPc, ctorErr, mw>>
           ELSE /\ ctorPc' = "returned"
                /\ ctorErr' = <<pattern>>
                /\ mw' = Nil
                /\ UNCHANGED refilters
    /\ UNCHANGED <<ctor, filtersArg, callVars, log, exited>>

\* the loop is over: return m, nil
FiltersReturn ==
    /\ ctor = "NewLoggingMiddlewareWithFilters"
    /\ ctorPc = "running"
    /\ visited = DOMAIN filtersArg
    /\ mw' = <<[logger |-> BaseLogger, filters |-> refilters]>>
    /\ ctorPc' = "returned"
    /\ UNCHANGED <<ctor, filtersArg, visited, refilters, ctorErr, callVars, log, exited>>

----------------------------------------------------------------------------
(* The handler returned by Apply, one invocation r *)

\* a handler that stores the derived logger back into the middleware
BeginSharedLogger(r) ==
    /\ ~exited
    /\ mw # Nil
    /\ pc[r] = "idle"
    /\ \E q \in Requests :
        /\ req' = [req EXCEPT ![r] = <<q>>]
        /\ logger' = [logger EXCEPT ![r] =
                        WithFields(WithRequestID(mw[1].logger, q), BuildFields(q))]
        /\ mw' = <<[mw[1] EXCEPT !.logger = logger'[r]]>>
        /\ loglevel' = [loglevel EXCEPT ![r] = SelectLevel(mw[1].filters, q.Path)]
    /\ pc' = [pc EXCEPT ![r] = "selected"]
    /\ UNCHANGED <<ctorVars, rw, err, ret, calls, log, exited>>

\* a request arrives: derive the logger, build the fields, select the level
Begin(r) ==
    /\ ~exited
    /\ mw # Nil
    /\ pc[r] = "idle"
    /\ \E q \in Requests :
        /\ req' = [req EXCEPT ![r] = <<q>>]
        /\ logger' = [logger EXCEPT ![r] =
                        WithFields(WithRequestID(mw[1].logger, q), BuildFields(q))]
        /\ loglevel' = [loglevel EXCEPT ![r] = SelectLevel(mw[1].filters, q.Path)]
    /\ pc' = [pc EXCEPT ![r] = "selected"]
    /\ UNCHANGED <<ctorVars, mw, rw, err, ret, calls, log, exited>>

\* loggerFuncMap[level](lg, msg): a level without an entry yields a nil func,
\* whose call panics; Fatalf exits the process and Panicf panics after emitting
Emit(r, level, lg, msg, after) ==
    IF level \notin DOMAIN loggerFuncMap
    THEN /\ pc' = [pc EXCEPT ![r] = "panicked"]
         /\ UNCHANGED <<log, exited>>
    ELSE /\ log' = Append(log, [req |-> r, msg |-> msg, data |-> lg,
                                level |-> MethodLevel(loggerFuncMap[level])])
         /\ exited' = (MethodEnd(loggerFuncMap[level]) = "exit")
         /\ pc' = [pc EXCEPT ![r] =
                     CASE MethodEnd(loggerFuncMap[level]) = "exit"  -> "exited"
                       [] MethodEnd(loggerFuncMap[level]) = "panic" -> "panicked"
                       [] OTHER -> after]

EmitStart(r) ==
    /\ ~exited
    /\ pc[r] = "selected"
    /\ Emit(r, loglevel[r], logger[r], "starting request", "started")
    /\ UNCHANGED <<ctorVars, mw, req, logger, loglevel, rw, err, ret, calls>>

\* rw := negroni.NewResponseWriter(w); next(rw, r, vars) is entered
CallNext(r) ==
    /\ ~exited
    /\ pc[r] = "started"
    /\ rw' = [rw EXCEPT ![r] = [status |-> 0, size |-> 0]]
    /\ calls' = [calls EXCEPT ![r] = @ + 1]
    /\ pc' = [pc EXCEPT ![r] = "inner"]
    /\ UNCHANGED <<ctorVars, mw, req, logger, loglevel, err, ret, log, exited>>

\* the wrapped handler calls rw.WriteHeader(code)
NextWriteHeader(r) ==
    /\ ~exited
    /\ pc[r] = "inner"
    /\ \E code \in StatusCodes : rw' = [rw EXCEPT ![r].status = code]
    /\ UNCHANGED <<ctorVars, mw, pc, req, logger, loglevel, err, ret, calls, log, exited>>

\* the wrapped handler calls rw.Write(b) with len(b) = n
NextWrite(r) ==
    /\ ~exited
    /\ pc[r] = "inner"
    /\ \E n \in 0..(MaxBytes - rw[r].size) :
        rw' = [rw EXCEPT ![r] = [status |-> IF @.status = 0 THEN 200 ELSE @.status,
                                 size |-> @.size + n]]
    /\ UNCHANGED <<ctorVars, mw, pc, req, logger, loglevel, err, ret, calls, log, exited>>

\* the wrapped handler returns
NextReturn(r) ==
    /\ ~exited
    /\ pc[r] = "inner"
    /\ \E e \in Errors : err' = [err EXCEPT ![r] = e]
    /\ pc' = [pc EXCEPT ![r] = "returned"]
    /\ UNCHANGED <<ctorVars, mw, req, logger, loglevel, rw, ret, calls, log, exited>>

CompletedFields(r) ==
    [k \in {"status", "duration", "bytes"} |->
        CASE k = "status"   -> EffectiveStatus(rw[r].status)
          [] k = "duration" -> "after.Sub(before).Seconds()"
          [] k = "bytes"    -> rw[r].size]

EmitCompletedAtInfo(r) ==
    /\ ~exited
    /\ pc[r] = "returned"
    /\ logger' = [logger EXCEPT ![r] = WithFields(@, CompletedFields(r))]
    /\ Emit(r, "Info", logger'[r], "request completed", "completed")
    /\ UNCHANGED <<ctorVars, mw, req, loglevel, rw, err, ret, calls>>

EmitCompletedEarly(r) ==
    /\ ~exited
    /\ pc[r] \in {"inner", "returned"}
    /\ logger' = [logger EXCEPT ![r] = WithFields(@, CompletedFields(r))]
    /\ Emit(r, loglevel[r], logger'[r], "request completed", "completed")
    /\ UNCHANGED <<ctorVars, mw, req, loglevel, rw, err, ret, calls>>

\* status, the three fields, and the "request completed" entry
EmitCompleted(r) ==
    /\ ~exited
    /\ pc[r] = "returned"
    /\ logger' = [logger EXCEPT ![r] = WithFields(@, CompletedFields(r))]
    /\ Emit(r, loglevel[r], logger'[r], "request completed", "completed")
    /\ UNCHANGED <<ctorVars, mw, req, loglevel, rw, err, ret, calls>>

ReturnNil(r) ==
    /\ ~exited
    /\ pc[r] = "completed"
    /\ ret' = [ret EXCEPT ![r] = NoError]
    /\ pc' = [pc EXCEPT ![r] = "done"]
    /\ UNCHANGED <<ctorVars, mw, req, logger, loglevel, rw, err, calls, log, exited>>

\* return err
Return(r) ==
    /\ ~exited
    /\ pc[r] = "completed"
    /\ ret' = [ret EXCEPT ![r] = err[r]]
    /\ pc' = [pc EXCEPT ![r] = "done"]
    /\ UNCHANGED <<ctorVars, mw, req, logger, loglevel, rw, err, calls, log, exited>>

Construct ==
    \/ NewLoggingMiddleware
    \/ FiltersRange
    \/ FiltersReturn

Handler(r) ==
    \/ Begin(r)
    \/ EmitStart(r)
    \/ CallNext(r)
    \/ NextWriteHeader(r)
    \/ NextWrite(r)
    \/ NextReturn(r)
    \/ EmitCompleted(r)
    \/ Return(r)

\* any filters map, one request
Init == InitWith(FilterMaps)

Next == Construct \/ Handler(1)

Spec == Init /\ [][Next]_vars

\* the scenario maps, the requests of Reqs running concurrently
InitConc == InitWith(ScenarioMaps)

NextConc == Construct \/ \E r \in Reqs : Handler(r)

SpecConc == InitConc /\ [][NextConc]_vars

----------------------------------------------------------------------------
(* Vocabulary of the properties *)

\* the positions in log of the entries of invocation r with message msg
Entries(r, msg) == {i \in DOMAIN log : log[i].req = r /\ log[i].msg = msg}

Starts(r) == Entries(r, "starting request")

Completions(r) == Entries(r, "request completed")

\* the request of an invocation that has begun
Request(r) == req[r][1]

\* the level of the last rule, by position, that matches path; Info if none
LastMatchLevel(filters, path) ==
    LET M == {i \in DOMAIN filters : MatchString(filters[i].re, path)}
    IN IF M = {} THEN "Info"
       ELSE filters[CHOOSE i \in M : \A j \in M : j <= i].level

Returning == {"Debug", "Info", "Warn", "Error"}

SevenFields == {"method", "path", "host", "from", "protocol", "referer", "user_agent"}

ScenarioA == [p \in {PatAdmin} |-> "Warn"]

ScenarioB == [p \in {PatA, PatAb} |-> IF p = PatA THEN "Debug" ELSE "Error"]

----------------------------------------------------------------------------
(* C1: whatever the path and the rule list held by the middleware, the      *)
(* level selected, and the level of every entry the invocation emits, is    *)
(* the level of the last rule in list order that matches the path, Info     *)
(* when none matches; built by NewLoggingMiddleware, it is always Info.     *)
C1_LastMatchWins ==
    \A r \in Reqs : pc[r] # "idle" =>
        /\ loglevel[r] = LastMatchLevel(mw[1].filters, Request(r).Path)
        /\ \A i \in DOMAIN log : log[i].req = r => log[i].level = loglevel[r]
        /\ ctor = "NewLoggingMiddleware" => loglevel[r] = "Info"

\* two rules of different levels match the path, and the entry is logged at
\* the level of the second
C1_Witness ==
    \E r \in Reqs :
        /\ pc[r] = "started"
        /\ Len(mw[1].filters) = 2
        /\ \A i \in 1..2 : MatchString(mw[1].filters[i].re, Request(r).Path)
        /\ mw[1].filters[1].level # mw[1].filters[2].level
        /\ \E i \in Starts(r) : log[i].level = mw[1].filters[2].level

(* C2: built from the rules "^/a": Debug then "^/ab": Error, the middleware *)
(* holds them in that order, so a request for /abc is selected Error.       *)
C2_ScenarioBAlwaysError ==
    \A r \in Reqs :
        (filtersArg = ScenarioB /\ pc[r] # "idle" /\ Request(r).Path = PathAbc)
            => loglevel[r] = "Error"

(* C3: once the returned handler has returned, what it returned is exactly  *)
(* what the wrapped handler returned (an error or nil), and the "request    *)
(* completed" entry of the invocation is already in the log.                *)
C3_ErrorRelayed ==
    \A r \in Reqs : pc[r] = "done" =>
        /\ err[r] \in Errors
        /\ ret[r] = err[r]
        /\ Completions(r) # {}

\* two invocations have returned two different errors
C3_Witness ==
    \E r1, r2 \in Reqs :
        /\ pc[r1] = "done" /\ ret[r1] = "E1"
        /\ pc[r2] = "done" /\ ret[r2] = "E2"

(* C4: when NewLoggingMiddlewareWithFilters has returned, it returned an    *)
(* error and a nil middleware if some pattern of the map does not compile,  *)
(* a middleware and a nil error if all compile, whatever the order in which *)
(* the map yielded its entries.                                            *)
C4_ConstructionOutcome ==
    (ctor = "NewLoggingMiddlewareWithFilters" /\ ctorPc = "returned") =>
        IF \E p \in DOMAIN filtersArg : ~CompileOk(p)
        THEN mw = Nil /\ ctorErr # Nil
        ELSE mw # Nil /\ ctorErr = Nil

\* the map yielded a valid pattern first and the invalid one after it
C4_Witness ==
    /\ ctorPc = "returned"
    /\ Cardinality(DOMAIN filtersArg) = 2
    /\ visited = DOMAIN filtersArg
    /\ Len(refilters) = 1
    /\ mw = Nil
    /\ ctorErr = <<PatBad>>

(* C5: the status field of a "request completed" entry is 200 when the      *)
(* recorder reports 0, and the status the recorder reports otherwise.       *)
C5_StatusField ==
    \A r \in Reqs : \A i \in Completions(r) :
        log[i].data["status"] = IF rw[r].status = 0 THEN 200 ELSE rw[r].status

\* the wrapped handler returned without setting a status; 200 was logged
C5_Witness ==
    \E r \in Reqs : \E i \in Completions(r) :
        rw[r].status = 0 /\ log[i].data["status"] = 200

(* C6: in every step, for each invocation: the wrapped handler is entered   *)
(* only once the "starting request" entry is in the log, and in a step that *)
(* emits nothing; the "request completed" entry is emitted only once the    *)
(* wrapped handler has returned; the "starting request" entry is emitted    *)
(* while the wrapped handler has not been entered.                          *)
C6_StartBeforeCompletedAfter ==
    [][\A r \in Reqs :
        /\ calls'[r] > calls[r] => (Starts(r) # {} /\ log' = log)
        /\ Completions(r)' # Completions(r) =>
              (Starts(r) # {} /\ calls[r] > 0 /\ err[r] # Unset)
        /\ Starts(r)' # Starts(r) => (calls[r] = 0 /\ err[r] = Unset)]_vars

\* both entries of one invocation lie between the two entries of another
C6_Witness ==
    \E r1, r2 \in Reqs :
        \E s1 \in Starts(r1), c1 \in Completions(r1),
           s2 \in Starts(r2), c2 \in Completions(r2) :
            s1 < s2 /\ s2 < c2 /\ c2 < c1

(* C7: the "request completed" entry of an invocation is at the level of    *)
(* its "starting request" entry, which is the level selected before the     *)
(* wrapped handler was called.                                              *)
C7_SameLevel ==
    \A r \in Reqs : \A j \in Completions(r) :
        /\ log[j].level = loglevel[r]
        /\ Starts(r) # {}
        /\ \A i \in Starts(r) : log[i].level = log[j].level

\* rules "^/admin": Warn; /admin/users is logged twice at Warn, /public
\* twice at Info
C7_Witness ==
    /\ filtersArg = ScenarioA
    /\ \E r1, r2 \in Reqs :
        /\ pc[r1] = "done" /\ Request(r1).Path = PathAdmin
        /\ \E i \in Starts(r1), j \in Completions(r1) :
              log[i].level = "Warn" /\ log[j].level = "Warn"
        /\ pc[r2] = "done" /\ Request(r2).Path = PathPublic
        /\ \E i \in Starts(r2), j \in Completions(r2) :
              log[i].level = "Info" /\ log[j].level = "Info"

\* the fields of the "starting request" entry of a request q, from q alone
OwnStartData(q) ==
    [k \in DOMAIN BaseLogger
           \cup (IF q.RequestID # <<>> THEN {"request_id"} ELSE {})
           \cup {f \in SevenFields : RequestFields(q)[f] # <<>>} |->
        IF k \in SevenFields THEN RequestFields(q)[k]
        ELSE IF k = "request_id" THEN q.RequestID[1]
        ELSE BaseLogger[k]]

\* what invocation r selected, logged and returned is a function of its own
\* request and of its own call of the wrapped handler
OwnOnly(r) ==
    pc[r] # "idle" =>
        /\ loglevel[r] = LastMatchLevel(mw[1].filters, Request(r).Path)
        /\ \A i \in Starts(r) :
              log[i].data = OwnStartData(Request(r)) /\ log[i].level = loglevel[r]
        /\ \A j \in Completions(r) :
              /\ log[j].level = loglevel[r]
              /\ DOMAIN log[j].data =
                    DOMAIN OwnStartData(Request(r)) \cup {"status", "duration", "bytes"}
              /\ \A k \in DOMAIN OwnStartData(Request(r)) :
                    log[j].data[k] = OwnStartData(Request(r))[k]
              /\ log[j].data["status"] = (IF rw[r].status = 0 THEN 200 ELSE rw[r].status)
              /\ log[j].data["bytes"] = rw[r].size
        /\ pc[r] = "done" => ret[r] = err[r]

(* C8: in every state, whatever the interleaving, the middleware is the one *)
(* its constructor returned (same base logger, same rule list), and each    *)
(* invocation's level, logged fields, status and returned error are those   *)
(* its own request and its own wrapped-handler call determine.              *)
C8_SharedReadOnly ==
    /\ mw # Nil => mw[1] = [logger |-> BaseLogger, filters |-> refilters]
    /\ \A r \in Reqs : OwnOnly(r)

\* an invocation ran from start to end while another, for a different
\* request at a different level, was inside its wrapped handler
C8_Witness ==
    \E r1, r2 \in Reqs :
        /\ pc[r1] = "inner" /\ pc[r2] = "done"
        /\ Request(r1) # Request(r2)
        /\ loglevel[r1] # loglevel[r2]
        /\ rw[r1] # rw[r2]
        /\ \E s1 \in Starts(r1), s2 \in Starts(r2) : s1 < s2

(* C9: of the seven request fields, the "starting request" entry carries    *)
(* exactly those whose value is not the empty string, with that value; the  *)
(* "request completed" entry carries every field of the start entry, with   *)
(* the same value, and status, duration and bytes.                          *)
C9_Fields ==
    \A r \in Reqs :
        /\ \A i \in Starts(r) : \A k \in SevenFields :
              /\ k \in DOMAIN log[i].data <=> RequestFields(Request(r))[k] # <<>>
              /\ k \in DOMAIN log[i].data =>
                    log[i].data[k] = RequestFields(Request(r))[k]
        /\ \A j \in Completions(r) :
              /\ {"status", "duration", "bytes"} \subseteq DOMAIN log[j].data
              /\ \A i \in Starts(r) : \A k \in DOMAIN log[i].data :
                    k \in DOMAIN log[j].data /\ log[j].data[k] = log[i].data[k]

\* a request without a Referer header: neither entry has a referer key
C9_Witness ==
    \E r \in Reqs : \E i \in Starts(r), j \in Completions(r) :
        /\ Request(r).Referer = <<>>
        /\ "referer" \notin DOMAIN log[i].data
        /\ "referer" \notin DOMAIN log[j].data
        /\ "method" \in DOMAIN log[i].data
        /\ log[i].data["path"] = PathAbc \o <<"?", "x">>

(* C10: the wrapped handler is invoked at most once per invocation and at   *)
(* most one "request completed" entry is emitted; at a level of Debug,      *)
(* Info, Warn or Error the invocation can always go on while the process    *)
(* lives, invokes the wrapped handler once the start entry is emitted, and  *)
(* has emitted one completion entry when it returns; at Fatal or Panic the  *)
(* start emission ends the invocation: the wrapped handler is never invoked *)
(* and no completion entry is emitted. The wrapped handler is invoked at no *)
(* other level.                                                             *)
C10_InvokedOnceUnlessFatal ==
    \A r \in Reqs :
        /\ calls[r] <= 1
        /\ Cardinality(Completions(r)) <= 1
        /\ calls[r] = 1 => loglevel[r] \in Returning
        /\ (loglevel[r] \in Returning /\ pc[r] # "selected") =>
              (calls[r] = 1 <=> pc[r] # "started")
        /\ (loglevel[r] \in Returning /\ pc[r] # "done" /\ ~exited) =>
              ENABLED Handler(r)
        /\ pc[r] = "done" =>
              (calls[r] = 1 /\ Cardinality(Completions(r)) = 1
                  /\ loglevel[r] \in Returning)
        /\ loglevel[r] \in {"Fatal", "Panic"} =>
              /\ calls[r] = 0
              /\ Completions(r) = {}
              /\ pc[r] \in {"selected", "exited", "panicked"}
              /\ pc[r] # "selected" => Cardinality(Starts(r)) = 1

\* a Fatal start entry has ended the process before the wrapped handler
\* ran, while another invocation, at Info, was inside its wrapped handler
C10_Witness ==
    \E r1, r2 \in Reqs :
        /\ loglevel[r1] = "Fatal"
        /\ pc[r1] = "exited"
        /\ exited
        /\ \E i \in Starts(r1) : log[i].level = "Fatal"
        /\ calls[r1] = 0
        /\ loglevel[r2] \in Returning
        /\ pc[r2] = "inner"
        /\ calls[r2] = 1

====
